---- MODULE Spec2Model ----
(***************************************************************************)
(* The request rate limiter of the employee directory service.             *)
(*                                                                         *)
(* Two RateLimiter classes exist in the repository:                        *)
(*   - src/api/rate_limit_custom/rate_limit.py : prunes the caller's log   *)
(*     on every check and, when more than 300 s have passed since          *)
(*     last_cleanup, runs _cleanup_old_entries from inside is_allowed;     *)
(*   - src/app/main.py : prunes the caller's log on every check and never  *)
(*     sweeps (cleanup_old_entries has no caller).                         *)
(*                                                                         *)
(* Time is in whole seconds.  Specification Spec drives both limiters (and *)
(* a third instance that only sees the checks of one observed key) with    *)
(* the same sequence of checks, one whole is_allowed call per step.        *)
(* Specification SpecConc runs is_allowed of rate_limit.py statement by    *)
(* statement in several threads over a heap of list objects.               *)
(***************************************************************************)
EXTENDS Integers, Sequences, FiniteSets, TLC

\* ---------------------------------------------------------------- bounds
max_requests == 2            \* RateLimiter(max_requests=...), small capacity
MaxCalls == 4                \* number of checks in one behaviour of Spec
MaxConcCalls == 3            \* number of checks in one behaviour of SpecConc
MaxConcClock == 301          \* SpecConc stops the clock here
MaxHttpCalls == 3            \* number of requests in one behaviour of SpecHttp
MaxEmployees == 2            \* rows the employees table holds at most in SpecDb

\* ------------------------------------------------------ program constants
WindowDuration == 60         \* timedelta(minutes=1)
SweepInterval == 300         \* (now - last_cleanup).total_seconds() > 300

Keys == {"A", "B"}           \* client_ip values
Observed == "B"              \* the key whose checks the solo limiter receives
ClockSteps == {0, 59, 60, 300}   \* seconds between two consecutive checks
SweepDelays == {0, 1}          \* seconds between the two clock reads of a sweeping check

Threads == {1, 2}            \* request handlers running is_allowed concurrently
ConcSteps == {301}           \* seconds the clock advances by in SpecConc
KeyOrder == << "A", "B" >>   \* iteration order of the dict's items

NoResult == "none"

DefaultMaxRequests == 30     \* rate_limiter = RateLimiter(max_requests=30)
\* limits other than the default that rate_limiter.max_requests is assigned
\* (the tests' fixtures assign 999999 and 30; small values keep a rejection
\* within reach of a few requests)
TestLimits == {1, 2}
Hosts == {"", "A"}           \* request.client.host of a request that has a client
Endpoints == {"/", "/employees/"}    \* routes that depend on check_rate_limit
HttpSteps == {0, 60}         \* seconds between two consecutive requests

\* ------------------------------------------------- dict / list operations
\* defaultdict(list).__getitem__ : the list of a key, [] for a missing key
Get(reqs, ip) == IF ip \in DOMAIN reqs THEN reqs[ip] ELSE << >>

\* self.requests[ip] = log
Put(reqs, ip, log) ==
    [x \in (DOMAIN reqs) \cup {ip} |-> IF x = ip THEN log ELSE reqs[x]]

\* [timestamp for timestamp in log if timestamp > one_minute_ago]
PruneKeepAll(log, now) == log
PruneWhenAllExpired(log, now) ==
    IF \A n \in 1..Len(log) : log[n] <= now - WindowDuration THEN << >> ELSE log
PruneDoubleWindow(log, now) ==
    SelectSeq(log, LAMBDA timestamp : timestamp > now - 2 * WindowDuration)
Prune(log, now) ==
    SelectSeq(log, LAMBDA timestamp : timestamp > now - WindowDuration)

\* a sweep gate that opens already when exactly the interval has passed
SweepDueAtInterval(now, last) == now - last >= SweepInterval

\* (now - self.last_cleanup).total_seconds() > 300
SweepDue(now, last) == now - last > SweepInterval

\* _cleanup_old_entries, with now2 the value its own datetime.now() returns:
\* every log is pruned against now2 - 1 minute, keys left empty are deleted.
\* ips_to_remove: the keys whose log is empty after the sweep's prune
RemoveEveryClient(reqs, now2) == Keys
\* a sweep that marks no key for removal
RemoveNoClient(reqs, now2) == {}
ips_to_remove(reqs, now2) ==
    {ip \in DOMAIN reqs : Prune(reqs[ip], now2) = << >>}

\* for ip in ips_to_remove: del self.requests[ip] raises KeyError when the
\* key is not in the dict
DelRaises(reqs, ips) == \E ip \in ips : ip \notin DOMAIN reqs

\* a sweep that prunes every log and deletes no key
CleanupKeepsEmptyKeys(reqs, now2) ==
    [ip \in DOMAIN reqs |-> Prune(reqs[ip], now2)]
CleanupClearsAll(reqs, now2) == [ip \in {} |-> << >>]
cleanup_old_entries(reqs, now2) ==
    LET pruned == [ip \in DOMAIN reqs |-> Prune(reqs[ip], now2)]
    IN  [ip \in (DOMAIN reqs) \ ips_to_remove(reqs, now2) |-> pruned[ip]]

\* cleanup_old_entries of app/main.py: one loop prunes every log against the
\* clock it reads and marks the empty ones, a second loop deletes them
main_cleanup_old_entries(reqs, now) ==
    LET pruned == [ip \in DOMAIN reqs |-> Prune(reqs[ip], now)]
    IN  [ip \in {k \in DOMAIN reqs : pruned[k] # << >>} |-> pruned[ip]]

\* a limit test that still admits a check whose log is already full
UnderLimitInclusive(log) == Len(log) <= max_requests

\* if len(log) >= self.max_requests: return False
UnderLimitOf(log, limit) == Len(log) < limit
UnderLimit(log) == UnderLimitOf(log, max_requests)

\* is_allowed of rate_limit.py.  now is the clock at line 16, now2 the clock
\* read by _cleanup_old_entries when the sweep runs.
is_allowed(reqs, last, ip, now, now2) ==
    LET r1    == Put(reqs, ip, Prune(Get(reqs, ip), now))
        sweep == SweepDue(now, last)
        r2    == IF sweep THEN cleanup_old_entries(r1, now2) ELSE r1
        r3    == Put(r2, ip, Get(r2, ip))
        ok    == UnderLimit(r3[ip])
    IN  [ requests     |-> IF ok THEN Put(r3, ip, Append(r3[ip], now)) ELSE r3,
          last_cleanup |-> IF sweep THEN now ELSE last,
          allowed      |-> ok,
          swept        |-> sweep,
          sweep_in     |-> r1,
          sweep_out    |-> r2,
          raised       |-> sweep /\ DelRaises(r1, ips_to_remove(r1, now2)) ]

\* is_allowed of app/main.py: no sweep, no last_cleanup.
\* limit is self.max_requests at the time of the call.
main_is_allowed_with(limit, reqs, ip, now) ==
    LET r1 == Put(reqs, ip, Prune(Get(reqs, ip), now))
        ok == UnderLimitOf(r1[ip], limit)
    IN  [ requests |-> IF ok THEN Put(r1, ip, Append(r1[ip], now)) ELSE r1,
          allowed  |-> ok,
          raised   |-> FALSE ]
main_is_allowed(reqs, ip, now) ==
    main_is_allowed_with(max_requests, reqs, ip, now)

\* request.client: None, or an Address(host, port); an Address is a non-empty
\* tuple and therefore true whatever its host is
NoClient == [ present |-> FALSE, host |-> "" ]
Client(h) == [ present |-> TRUE, host |-> h ]
Clients == {NoClient} \cup {Client(h) : h \in Hosts}

\* client_ip = request.client.host if request.client else "unknown"
EndpointAsKey(request) == request.endpoint
client_ip(request) ==
    IF request.client.present THEN request.client.host ELSE "unknown"

\* check_rate_limit after is_allowed returned res: HTTPException(429) with
\* the literal text "Maximum 30 requests per minute allowed" when res.allowed
\* is False, nothing when it is True; an exception of is_allowed propagates.
StatusTooManyRequests == 429
DetailLimit == 30
RateLimitResponse(res) ==
    IF res.raised THEN [ outcome |-> "KeyError", status_code |-> 0, limit |-> 0 ]
    ELSE IF ~res.allowed
         THEN [ outcome |-> "HTTPException",
                status_code |-> StatusTooManyRequests, limit |-> DetailLimit ]
         ELSE [ outcome |-> "pass", status_code |-> 0, limit |-> 0 ]

\* ------------------------------------------------------------------ state
VARIABLES
    clock,              \* the wall clock, seconds since the limiters were built
    requests,           \* rate_limit.py limiter: IP -> list of timestamps
    last_cleanup,       \* rate_limit.py limiter: time of the last sweep
    main_requests,      \* app/main.py limiter: IP -> list of timestamps
    solo_requests,      \* rate_limit.py limiter fed only the Observed key's checks
    solo_last_cleanup,
    calls,              \* history: one record per check made so far
    c_clock,            \* SpecConc: the wall clock
    c_heap,             \* SpecConc: list objects, object id -> list of timestamps
    c_requests,         \* SpecConc: self.requests, IP -> id of its list object
    c_last_cleanup,     \* SpecConc: self.last_cleanup
    th,                 \* SpecConc: per thread, the position in is_allowed and its locals
    c_started,          \* SpecConc: number of checks started
    c_admits,           \* SpecConc history: the checks that returned True
    h_clock,            \* SpecHttp: the wall clock
    h_max_requests,     \* SpecHttp: rate_limiter.max_requests of app/main.py
    h_requests,         \* SpecHttp: rate_limiter.requests of app/main.py
    h_calls,            \* SpecHttp history: one record per request
    h_reset_at,         \* SpecHttp: number of requests made before the last fixture run
    d_table,            \* SpecDb: the rows of the employees table, in insertion order
    d_resp,             \* SpecDb: the request being answered and its answer
    d_engine,           \* SpecDb: the database the session is bound to
    d_seq,              \* SpecDb: number of rows inserted so far
    d_deleted,          \* SpecDb history: the ids a DELETE answered 204 for
    d_reused            \* SpecDb history: the deleted ids given to a later row

svars == << clock, requests, last_cleanup, main_requests,
            solo_requests, solo_last_cleanup, calls >>
cvars == << c_clock, c_heap, c_requests, c_last_cleanup, th, c_started, c_admits >>
hvars == << h_clock, h_max_requests, h_requests, h_calls, h_reset_at >>
dvars == << d_table, d_resp, d_engine, d_seq, d_deleted, d_reused >>
vars == << svars, cvars, hvars, dvars >>

EmptyDict == [ip \in {} |-> << >>]

\* SpecDb: no request is being answered
NoRequest == [ op |-> "none" ]

\* a thread outside is_allowed
Idle == [ pc |-> "idle", id |-> 0, ip |-> "", now |-> 0, now2 |-> 0,
          obj |-> 0, snap |-> << >>, rm |-> << >> ]

Init ==
    /\ clock = 0
    /\ requests = EmptyDict
    /\ last_cleanup = 0
    /\ main_requests = EmptyDict
    /\ solo_requests = EmptyDict
    /\ solo_last_cleanup = 0
    /\ calls = << >>
    /\ c_clock = 0
    /\ c_heap = << >>
    /\ c_requests = EmptyDict
    /\ c_last_cleanup = 0
    /\ th = [t \in Threads |-> Idle]
    /\ c_started = 0
    /\ c_admits = {}
    /\ h_clock = 0
    /\ h_max_requests = DefaultMaxRequests
    /\ h_requests = EmptyDict
    /\ h_calls = << >>
    /\ h_reset_at = 0
    /\ d_table = << >>
    /\ d_resp = NoRequest
    /\ d_engine = "none"
    /\ d_seq = 0
    /\ d_deleted = {}
    /\ d_reused = {}

\* One request from client ip arriving step seconds after the previous one.
\* check_rate_limit calls is_allowed on each limiter; delay is the time that
\* passes between the clock read of is_allowed and that of the sweep.
Check(ip, step, delay) ==
    LET now  == clock + step
        now2 == now + delay
        rl   == is_allowed(requests, last_cleanup, ip, now, now2)
        mn   == main_is_allowed(main_requests, ip, now)
        so   == is_allowed(solo_requests, solo_last_cleanup, ip, now, now2)
        solo == ip = Observed
        anySweep == rl.swept \/ (solo /\ so.swept)
    IN  /\ Len(calls) < MaxCalls
        /\ anySweep \/ delay = 0
        /\ clock' = IF anySweep THEN now2 ELSE now
        /\ requests' = rl.requests
        /\ last_cleanup' = rl.last_cleanup
        /\ main_requests' = mn.requests
        /\ solo_requests' = IF solo THEN so.requests ELSE solo_requests
        /\ solo_last_cleanup' = IF solo THEN so.last_cleanup ELSE solo_last_cleanup
        /\ calls' = Append(calls,
              [ ip |-> ip, now |-> now, now2 |-> now2,
                allowed |-> rl.allowed, swept |-> rl.swept,
                raised |-> rl.raised, response |-> RateLimitResponse(rl),
                main_allowed |-> mn.allowed,
                solo_allowed |-> IF solo THEN so.allowed ELSE NoResult,
                before |-> requests, after |-> rl.requests,
                sweep_in |-> rl.sweep_in, sweep_out |-> rl.sweep_out,
                main_before |-> main_requests, main_after |-> mn.requests ])
        /\ UNCHANGED << cvars, hvars, dvars >>

Next == \E ip \in Keys, step \in ClockSteps, delay \in SweepDelays :
            Check(ip, step, delay)

Spec == Init /\ [][Next]_vars

\* ------------------------------------------- SpecHttp: the HTTP dependency
\* One request to a route of app/main.py.  Every route declares
\* Depends(check_rate_limit): the key is derived from request.client, the
\* module-level rate_limiter is asked, and a False result is answered with
\* the HTTPException; otherwise the route's handler runs.
HttpRequest(client, endpoint, step) ==
    LET request == [ client |-> client, endpoint |-> endpoint ]
        now == h_clock + step
        key == client_ip(request)
        res == main_is_allowed_with(h_max_requests, h_requests, key, now)
    IN  /\ Len(h_calls) < MaxHttpCalls
        /\ h_clock' = now
        /\ h_requests' = res.requests
        /\ h_calls' = Append(h_calls,
              [ client |-> client, endpoint |-> endpoint, key |-> key,
                now |-> now, allowed |-> res.allowed,
                limit |-> h_max_requests,
                response |-> RateLimitResponse(res) ])
        /\ UNCHANGED << svars, cvars, dvars, h_max_requests, h_reset_at >>

\* The tests' fixtures: rate_limiter.max_requests = n and
\* rate_limiter.requests.clear().
SetMaxRequests(n) ==
    /\ n # h_max_requests
    /\ h_max_requests' = n
    /\ h_requests' = EmptyDict
    /\ h_reset_at' = Len(h_calls)
    /\ UNCHANGED << svars, cvars, dvars, h_clock, h_calls >>

HttpNext ==
    \/ \E client \in Clients, endpoint \in Endpoints, step \in HttpSteps :
           HttpRequest(client, endpoint, step)
    \/ \E n \in TestLimits : SetMaxRequests(n)

SpecHttp == Init /\ [][HttpNext]_vars

\* ------------------------------------------ SpecDb: the employees table
\* search_employees exists twice: in app/main.py (no pagination) and in
\* api/api_v1/endpoint.py (limit and offset).  Both run over the same table.
\* Strings the code or the database inspects character by character (names,
\* the name and status parameters) are sequences of one-character strings.

LimitDefault == 100          \* limit: int = Query(100, ...)
LimitMax == 1000             \* Query(..., le=1000)

\* an optional query parameter: absent, or present with a value
NotGivenSeq == [ given |-> FALSE, value |-> << >> ]
NotGivenStr == [ given |-> FALSE, value |-> "" ]
NotGivenInt == [ given |-> FALSE, value |-> 0 ]
Given(v) == [ given |-> TRUE, value |-> v ]

\* rows a request body of POST /employees/ can carry (contact_info, which no
\* filter reads, is left out)
SampleEmployees ==
    { [ first_name |-> << "A", "l" >>, last_name |-> << "b" >>,
        department |-> "Engineering", position |-> "Engineer",
        location |-> "New York", status |-> 1 ],
      [ first_name |-> << "B" >>, last_name |-> << "l", "a" >>,
        department |-> "Sales", position |-> "Manager",
        location |-> "Chicago", status |-> 0 ] }

NameQueries == { NotGivenSeq, Given(<< >>), Given(<< "l" >>),
                 Given(<< "A", "L" >>), Given(<< "_" >>) }
DepartmentQueries == { NotGivenStr, Given("Engineering"), Given("Sales") }
PositionQueries == { NotGivenStr, Given("Engineer") }
LocationQueries == { NotGivenStr, Given("New York") }
StatusQueries == { NotGivenSeq, Given(<< "A", "l", "l" >>), Given(<< "1" >>),
                   Given(<< "0", ",", " ", "1" >>), Given(<< "5" >>), Given(<< >>),
                   Given(<< "1", ",", "x" >>) }
LimitQueries == { NotGivenInt, Given(1), Given(LimitMax + 1) }
OffsetQueries == { NotGivenInt, Given(1) }

\* str.lower()
Lower(c) == CASE c = "A" -> "a" [] c = "B" -> "b" [] c = "L" -> "l" [] OTHER -> c
LowerStr(str) == [n \in 1..Len(str) |-> Lower(str[n])]

\* SQL LIKE: % matches any run of characters, _ any one character
RECURSIVE Like(_, _)
Like(pattern, str) ==
    IF pattern = << >> THEN str = << >>
    ELSE IF Head(pattern) = "%"
         THEN Like(Tail(pattern), str) \/ (str # << >> /\ Like(pattern, Tail(str)))
         ELSE /\ str # << >>
              /\ Head(pattern) = "_" \/ Head(pattern) = Head(str)
              /\ Like(Tail(pattern), Tail(str))

\* column.ilike(pattern): LIKE without regard to case
ilike(column, pattern) == Like(LowerStr(pattern), LowerStr(column))

\* str.split(",")
RECURSIVE Split(_)
Split(str) ==
    IF \A n \in 1..Len(str) : str[n] # ","
    THEN << str >>
    ELSE LET i == CHOOSE n \in 1..Len(str) :
                     str[n] = "," /\ \A m \in 1..(n - 1) : str[m] # ","
         IN  << SubSeq(str, 1, i - 1) >> \o Split(SubSeq(str, i + 1, Len(str)))

\* str.strip()
RECURSIVE Strip(_)
Strip(str) ==
    IF str # << >> /\ Head(str) = " " THEN Strip(Tail(str))
    ELSE IF str # << >> /\ str[Len(str)] = " "
         THEN Strip(SubSeq(str, 1, Len(str) - 1))
         ELSE str

\* int(str): an optional sign and at least one digit, ValueError otherwise
Digits == { "0", "1", "2", "5" }
DigitValue(c) == CASE c = "0" -> 0 [] c = "1" -> 1 [] c = "2" -> 2 [] c = "5" -> 5
Unsigned(str) ==
    IF str # << >> /\ Head(str) \in { "+", "-" } THEN Tail(str) ELSE str
IsInt(str) ==
    Unsigned(str) # << >> /\ \A n \in 1..Len(Unsigned(str)) : Unsigned(str)[n] \in Digits
RECURSIVE Magnitude(_)
Magnitude(str) ==
    IF str = << >> THEN 0
    ELSE 10 * Magnitude(SubSeq(str, 1, Len(str) - 1)) + DigitValue(str[Len(str)])
IntValue(str) ==
    IF Head(str) = "-" THEN 0 - Magnitude(Unsigned(str)) ELSE Magnitude(Unsigned(str))

\* the status parameter, "all" when absent
StatusOf(q) == IF q.status.given THEN q.status.value ELSE << "a", "l", "l" >>

\* the stripped parts of the status parameter
StatusParts(status) ==
    { Strip(Split(status)[n]) : n \in 1..Len(Split(status)) }

StatusFilterSkipsInvalid(status) ==
    IF LowerStr(status) = << "a", "l", "l" >>
    THEN [ all |-> TRUE, ok |-> TRUE, values |-> {} ]
    ELSE [ all |-> FALSE, ok |-> TRUE,
           values |-> { IntValue(x) : x \in { y \in StatusParts(status) : IsInt(y) } }
                         \cap { 0, 1, 2 } ]

\* the status block of search_employees: no filter for "all" in any case,
\* else the set of the listed values, or ValueError (answered 400) when a
\* part is no integer or is not one of 0, 1, 2
StatusFilter(status) ==
    IF LowerStr(status) = << "a", "l", "l" >>
    THEN [ all |-> TRUE, ok |-> TRUE, values |-> {} ]
    ELSE LET parts == Split(status)
             strs  == { Strip(parts[n]) : n \in 1..Len(parts) }
         IN  IF /\ \A x \in strs : IsInt(x)
                /\ \A x \in strs : IntValue(x) \in { 0, 1, 2 }
             THEN [ all |-> FALSE, ok |-> TRUE, values |-> { IntValue(x) : x \in strs } ]
             ELSE [ all |-> FALSE, ok |-> FALSE, values |-> {} ]

\* the filters search_employees adds to the query, for one row
RowMatches(e, q) ==
    LET st == StatusFilter(StatusOf(q))
        search_pattern == << "%" >> \o q.name.value \o << "%" >>
    IN  /\ st.all \/ e.status \in st.values
        /\ (q.name.given /\ q.name.value # << >>) =>
              ilike(e.first_name, search_pattern) \/ ilike(e.last_name, search_pattern)
        /\ (q.department.given /\ q.department.value # "") =>
              e.department = q.department.value
        /\ (q.position.given /\ q.position.value # "") =>
              e.position = q.position.value
        /\ (q.location.given /\ q.location.value # "") =>
              e.location = q.location.value

Filtered(rows, q) == SelectSeq(rows, LAMBDA e : RowMatches(e, q))

\* query.offset(offset).limit(limit).all()
Page(rows, offset, limit) ==
    SubSeq(rows, offset + 1, IF offset + limit < Len(rows) THEN offset + limit ELSE Len(rows))

\* search_employees of app/main.py over the rows in the order the database
\* yields them; limit and offset are not parameters of this function.
main_search_employees(rows, q, admitted) ==
    IF ~admitted
    THEN [ status_code |-> StatusTooManyRequests, body |-> << >>, employees |-> << >> ]
    ELSE IF ~StatusFilter(StatusOf(q)).ok
    THEN [ status_code |-> 400, body |-> << >>, employees |-> << >> ]
    ELSE [ status_code |-> 200, body |-> Filtered(rows, q),
           employees |-> Filtered(rows, q) ]

\* search_employees of api/api_v1/endpoint.py: limit (ge=1, le=1000) and
\* offset (ge=0) are validated before the body runs; the body pages the
\* query, and its line 86 then calls logger.info although the module neither
\* imports nor defines logger: NameError, answered 500.
search_employees(rows, q, admitted) ==
    LET limit  == IF q.limit.given THEN q.limit.value ELSE LimitDefault
        offset == IF q.offset.given THEN q.offset.value ELSE 0
    IN  IF ~admitted
        THEN [ status_code |-> StatusTooManyRequests, body |-> << >>, employees |-> << >> ]
        ELSE IF limit < 1 \/ limit > LimitMax \/ offset < 0
        THEN [ status_code |-> 422, body |-> << >>, employees |-> << >> ]
        ELSE IF ~StatusFilter(StatusOf(q)).ok
        THEN [ status_code |-> 400, body |-> << >>, employees |-> << >> ]
        ELSE [ status_code |-> 500, body |-> << >>,
               employees |-> Page(Filtered(rows, q), offset, limit) ]

\* The databases the code is run against: DATABASE_URL defaults to
\* PostgreSQL, the tests bind the session to SQLite.
Engines == { "postgresql", "sqlite" }

\* create_engine(DATABASE_URL) and the session bound to it
Connect(engine) ==
    /\ d_engine = "none"
    /\ d_engine' = engine
    /\ UNCHANGED << svars, cvars, hvars, d_table, d_resp, d_seq, d_deleted, d_reused >>

\* id = Column(Integer, primary_key=True) on insert: PostgreSQL takes the next
\* value of the column's sequence; SQLite takes one more than the largest id
\* in the table, 1 for an empty table.
StoredIds(table) == { table[n].id : n \in 1..Len(table) }
MaxId(table) ==
    IF table = << >> THEN 0
    ELSE CHOOSE i \in StoredIds(table) : \A j \in StoredIds(table) : j <= i
NextId(engine, table, seq) ==
    IF engine = "sqlite" THEN MaxId(table) + 1 ELSE seq + 1

\* db.query(Employee).filter(Employee.id == employee_id).first()
Found(table, id) == id \in StoredIds(table)
RowOf(table, id) == table[CHOOSE n \in 1..Len(table) : table[n].id = id]

\* db.delete(db_employee); db.commit()
DeleteKeepsRow(table, id) == table
DeleteRow(table, id) == SelectSeq(table, LAMBDA e : e.id # id)

\* setattr(db_employee, field, value) for the fields of the update
UpdateRow(table, id, update) ==
    [n \in 1..Len(table) |-> IF table[n].id = id THEN update @@ table[n] ELSE table[n]]

\* ids a request path can name: those a row can have and one no row ever has
RequestIds == 1..(MaxEmployees + 1)
\* bodies of PUT /employees/{id}: EmployeeUpdate with the fields that are set
Updates == { [ status |-> 0 ] }

\* POST /employees/ of app/main.py: the row is stored under the next id.
CreateEmployee(employee, admitted) ==
    LET id == NextId(d_engine, d_table, d_seq)
    IN  /\ d_resp = NoRequest
        /\ d_engine # "none"
        /\ d_seq < MaxEmployees
        /\ d_table' = IF admitted THEN Append(d_table, [ id |-> id ] @@ employee)
                      ELSE d_table
        /\ d_seq' = IF admitted THEN d_seq + 1 ELSE d_seq
        /\ d_reused' = IF admitted /\ id \in d_deleted THEN d_reused \cup { id }
                       ELSE d_reused
        /\ d_resp' = [ op |-> "create", admitted |-> admitted, id |-> id,
                       before |-> d_table,
                       status_code |-> IF admitted THEN 201 ELSE StatusTooManyRequests ]
        /\ UNCHANGED << svars, cvars, hvars, d_engine, d_deleted >>

\* GET /employees/{employee_id}
GetEmployee(id, admitted) ==
    /\ d_resp = NoRequest
    /\ d_engine # "none"
    /\ d_resp' = [ op |-> "get", admitted |-> admitted, id |-> id, before |-> d_table,
                   status_code |-> IF ~admitted THEN StatusTooManyRequests
                                   ELSE IF Found(d_table, id) THEN 200 ELSE 404 ]
    /\ UNCHANGED << svars, cvars, hvars, d_table, d_engine, d_seq, d_deleted, d_reused >>

\* PUT /employees/{employee_id}
UpdateEmployee(id, update, admitted) ==
    /\ d_resp = NoRequest
    /\ d_engine # "none"
    /\ d_table' = IF admitted /\ Found(d_table, id) THEN UpdateRow(d_table, id, update)
                  ELSE d_table
    /\ d_resp' = [ op |-> "put", admitted |-> admitted, id |-> id, before |-> d_table,
                   status_code |-> IF ~admitted THEN StatusTooManyRequests
                                   ELSE IF Found(d_table, id) THEN 200 ELSE 404 ]
    /\ UNCHANGED << svars, cvars, hvars, d_engine, d_seq, d_deleted, d_reused >>

\* DELETE /employees/{employee_id}
DeleteEmployee(id, admitted) ==
    /\ d_resp = NoRequest
    /\ d_engine # "none"
    /\ d_table' = IF admitted /\ Found(d_table, id) THEN DeleteRow(d_table, id)
                  ELSE d_table
    /\ d_deleted' = IF admitted /\ Found(d_table, id) THEN d_deleted \cup { id }
                    ELSE d_deleted
    /\ d_reused' = IF admitted /\ Found(d_table, id) THEN d_reused \ { id }
                   ELSE d_reused
    /\ d_resp' = [ op |-> "delete", admitted |-> admitted, id |-> id, before |-> d_table,
                   status_code |-> IF ~admitted THEN StatusTooManyRequests
                                   ELSE IF Found(d_table, id) THEN 204 ELSE 404 ]
    /\ UNCHANGED << svars, cvars, hvars, d_engine, d_seq >>

\* GET /employees/ answered by both search_employees functions.  The query
\* has no ORDER BY, so the database may yield the rows in any order.
SearchEmployees(q, order, admitted) ==
    LET rows == [n \in 1..Len(d_table) |-> d_table[order[n]]]
    IN  /\ d_resp = NoRequest
        /\ d_engine # "none"
        /\ d_resp' = [ op |-> "search", q |-> q, admitted |-> admitted, rows |-> rows,
                       main |-> main_search_employees(rows, q, admitted),
                       v1   |-> search_employees(rows, q, admitted) ]
        /\ UNCHANGED << svars, cvars, hvars, d_table, d_engine, d_seq, d_deleted, d_reused >>

\* The handler returns and the answer goes out to the client; the next
\* request of the test client is handled after that.
Respond ==
    /\ d_resp # NoRequest
    /\ d_resp' = NoRequest
    /\ UNCHANGED << svars, cvars, hvars, d_table, d_engine, d_seq, d_deleted, d_reused >>

\* searches that combine the filters, and searches that page a result
FilterQueries ==
    [ name : NameQueries, department : DepartmentQueries,
      position : PositionQueries, location : LocationQueries,
      status : StatusQueries, limit : { NotGivenInt }, offset : { NotGivenInt } ]
PageQueries ==
    [ name : { NotGivenSeq }, department : DepartmentQueries,
      position : { NotGivenStr }, location : { NotGivenStr },
      status : StatusQueries, limit : LimitQueries, offset : OffsetQueries ]
Queries == FilterQueries \cup PageQueries

DbNext ==
    \/ \E engine \in Engines : Connect(engine)
    \/ /\ d_resp = NoRequest
       /\ \E employee \in SampleEmployees, admitted \in BOOLEAN :
              CreateEmployee(employee, admitted)
    \/ \E id \in RequestIds, admitted \in BOOLEAN : GetEmployee(id, admitted)
    \/ \E id \in RequestIds, update \in Updates, admitted \in BOOLEAN :
           UpdateEmployee(id, update, admitted)
    \/ \E id \in RequestIds, admitted \in BOOLEAN : DeleteEmployee(id, admitted)
    \/ /\ d_resp = NoRequest
       /\ \E q \in Queries, order \in Permutations(1..Len(d_table)),
             admitted \in BOOLEAN :
              SearchEmployees(q, order, admitted)
    \/ Respond

SpecDb == Init /\ [][DbNext]_vars

\* ------------------------------------------------ SpecConc: threaded run
\* is_allowed of rate_limit.py executed statement by statement by several
\* threads.  No statement of the class takes a lock, so between any two
\* statements of one thread the others may run.  Lists are heap objects:
\* c_requests maps a key to the id of its list, a list comprehension
\* allocates a new object, append mutates the object the dict holds.

NewId == Len(c_heap) + 1

\* self.requests[ip] on the defaultdict: the key's list object, a fresh empty
\* list inserted for a missing key
Lookup(ip) ==
    IF ip \in DOMAIN c_requests
    THEN [ obj |-> c_requests[ip], heap |-> c_heap, reqs |-> c_requests ]
    ELSE [ obj |-> NewId, heap |-> Append(c_heap, << >>),
           reqs |-> Put(c_requests, ip, NewId) ]

\* list(self.requests.items()): the (key, list object) pairs of the dict
Items(reqs) ==
    SelectSeq([n \in 1..Len(KeyOrder) |->
                  << KeyOrder[n], Get(reqs, KeyOrder[n]) >>],
              LAMBDA item : item[1] \in DOMAIN reqs)

\* the clock passes
Tick(d) ==
    /\ c_clock + d <= MaxConcClock
    /\ c_clock' = c_clock + d
    /\ UNCHANGED << svars, hvars, dvars, c_heap, c_requests, c_last_cleanup, th, c_started, c_admits >>

\* line 16: a handler enters is_allowed(ip) and reads the clock
Start(t, ip) ==
    /\ th[t].pc = "idle"
    /\ c_started < MaxConcCalls
    /\ c_started' = c_started + 1
    /\ th' = [th EXCEPT ![t] = [Idle EXCEPT !.pc = "prune_read", !.id = c_started + 1,
                                            !.ip = ip, !.now = c_clock]]
    /\ UNCHANGED << svars, hvars, dvars, c_clock, c_heap, c_requests, c_last_cleanup, c_admits >>

\* lines 20-23, right-hand side: the comprehension builds the pruned list
PruneRead(t) ==
    LET l == Lookup(th[t].ip) IN
    /\ th[t].pc = "prune_read"
    /\ c_heap' = Append(l.heap, Prune(l.heap[l.obj], th[t].now))
    /\ c_requests' = l.reqs
    /\ th' = [th EXCEPT ![t].pc = "prune_store", ![t].obj = Len(l.heap) + 1]
    /\ UNCHANGED << svars, hvars, dvars, c_clock, c_last_cleanup, c_started, c_admits >>

\* line 20, the assignment self.requests[client_ip] = <pruned list>
PruneStore(t) ==
    /\ th[t].pc = "prune_store"
    /\ c_requests' = Put(c_requests, th[t].ip, th[t].obj)
    /\ th' = [th EXCEPT ![t].pc = "sweep_gate"]
    /\ UNCHANGED << svars, hvars, dvars, c_clock, c_heap, c_last_cleanup, c_started, c_admits >>

\* line 26: if (now - self.last_cleanup).total_seconds() > 300
SweepGate(t) ==
    /\ th[t].pc = "sweep_gate"
    /\ th' = [th EXCEPT ![t].pc = IF SweepDue(th[t].now, c_last_cleanup)
                                  THEN "sweep_snap" ELSE "limit_test"]
    /\ UNCHANGED << svars, hvars, dvars, c_clock, c_heap, c_requests, c_last_cleanup, c_started, c_admits >>

\* lines 40-44: _cleanup_old_entries reads the clock and copies the items
SweepSnap(t) ==
    /\ th[t].pc = "sweep_snap"
    /\ th' = [th EXCEPT ![t].pc = "sweep_item", ![t].now2 = c_clock,
                        ![t].snap = Items(c_requests)]
    /\ UNCHANGED << svars, hvars, dvars, c_clock, c_heap, c_requests, c_last_cleanup, c_started, c_admits >>

\* lines 44-49, one iteration: the key's list is replaced by the pruned copy
\* of the list object the snapshot holds; an empty result marks the key
SweepItem(t) ==
    /\ th[t].pc = "sweep_item"
    /\ th[t].snap # << >>
    /\ LET ip     == Head(th[t].snap)[1]
           pruned == Prune(c_heap[Head(th[t].snap)[2]], th[t].now2)
       IN  /\ c_heap' = Append(c_heap, pruned)
           /\ c_requests' = Put(c_requests, ip, NewId)
           /\ th' = [th EXCEPT ![t].snap = Tail(th[t].snap),
                               ![t].rm = IF pruned = << >>
                                         THEN Append(th[t].rm, ip) ELSE th[t].rm]
    /\ UNCHANGED << svars, hvars, dvars, c_clock, c_last_cleanup, c_started, c_admits >>

\* lines 51-52, one iteration: del self.requests[ip]; KeyError for a key
\* that is no longer in the dict
SweepDelete(t) ==
    /\ th[t].pc = "sweep_item"
    /\ th[t].snap = << >>
    /\ th[t].rm # << >>
    /\ LET ip == Head(th[t].rm) IN
       IF ip \in DOMAIN c_requests
       THEN /\ c_requests' = [x \in (DOMAIN c_requests) \ {ip} |-> c_requests[x]]
            /\ th' = [th EXCEPT ![t].rm = Tail(th[t].rm)]
       ELSE /\ c_requests' = c_requests
            /\ th' = [th EXCEPT ![t].pc = "KeyError"]
    /\ UNCHANGED << svars, hvars, dvars, c_clock, c_heap, c_last_cleanup, c_started, c_admits >>

\* line 28: self.last_cleanup = now, after _cleanup_old_entries returned
SweepDone(t) ==
    /\ th[t].pc = "sweep_item"
    /\ th[t].snap = << >>
    /\ th[t].rm = << >>
    /\ c_last_cleanup' = th[t].now
    /\ th' = [th EXCEPT ![t].pc = "limit_test"]
    /\ UNCHANGED << svars, hvars, dvars, c_clock, c_heap, c_requests, c_started, c_admits >>

\* lines 31-32: if len(self.requests[client_ip]) >= self.max_requests: return False
LimitTest(t) ==
    LET l == Lookup(th[t].ip) IN
    /\ th[t].pc = "limit_test"
    /\ c_heap' = l.heap
    /\ c_requests' = l.reqs
    /\ th' = [th EXCEPT ![t] = IF UnderLimit(l.heap[l.obj])
                               THEN [th[t] EXCEPT !.pc = "append"] ELSE Idle]
    /\ UNCHANGED << svars, hvars, dvars, c_clock, c_last_cleanup, c_started, c_admits >>

\* lines 35-36: self.requests[client_ip].append(now); return True
AppendNow(t) ==
    LET l == Lookup(th[t].ip) IN
    /\ th[t].pc = "append"
    /\ c_heap' = [l.heap EXCEPT ![l.obj] = Append(@, th[t].now)]
    /\ c_requests' = l.reqs
    /\ c_admits' = c_admits \cup {[id |-> th[t].id, ip |-> th[t].ip, ts |-> th[t].now]}
    /\ th' = [th EXCEPT ![t] = Idle]
    /\ UNCHANGED << svars, hvars, dvars, c_clock, c_last_cleanup, c_started >>

Sweeping(t) == SweepItem(t) \/ SweepDelete(t)

ConcNext ==
    \/ \E d \in ConcSteps : Tick(d)
    \/ \E t \in Threads, ip \in Keys : Start(t, ip)
    \/ \E t \in Threads : PruneRead(t)
    \/ \E t \in Threads : PruneStore(t)
    \/ \E t \in Threads : SweepGate(t)
    \/ \E t \in Threads : SweepSnap(t)
    \/ \E t \in Threads : SweepItem(t)
    \/ \E t \in Threads : SweepDelete(t)
    \/ \E t \in Threads : SweepDone(t)
    \/ \E t \in Threads : LimitTest(t)
    \/ \E t \in Threads : AppendNow(t)

SpecConc == Init /\ [][ConcNext]_vars

\* the log the dict holds for a key
CLog(ip) == IF ip \in DOMAIN c_requests THEN c_heap[c_requests[ip]] ELSE << >>

\* ------------------------------------------------------ history helpers
Idx == 1..Len(calls)

\* the earlier checks of calls[i]'s key that the rate_limit.py limiter admitted
EarlierAdmits(i) ==
    {j \in 1..(i - 1) : calls[j].ip = calls[i].ip /\ calls[j].allowed}
\* the same for the app/main.py limiter
MainEarlierAdmits(i) ==
    {j \in 1..(i - 1) : calls[j].ip = calls[i].ip /\ calls[j].main_allowed}

IsSuffix(s, t) == \E n \in 0..Len(t) : s = SubSeq(t, n + 1, Len(t))

Range(s) == {s[n] : n \in 1..Len(s)}

\* ----------------------------------------------------------------- C1
\* C1 (quota bound): for every key and every window [t - 1 minute, t], the
\* number of checks of that key admitted at a time inside the window is at
\* most max_requests, for the rate_limit.py limiter and the app/main.py one.
C1_QuotaBound ==
    \A k \in Keys : \A e \in Idx :
        LET t == calls[e].now IN
        /\ Cardinality({i \in Idx : /\ calls[i].ip = k
                                    /\ calls[i].allowed
                                    /\ calls[i].now >= t - WindowDuration
                                    /\ calls[i].now <= t}) <= max_requests
        /\ Cardinality({i \in Idx : /\ calls[i].ip = k
                                    /\ calls[i].main_allowed
                                    /\ calls[i].now >= t - WindowDuration
                                    /\ calls[i].now <= t}) <= max_requests

\* ----------------------------------------------------------------- C2
\* C2 (sequential exhaustion): when all checks made so far are for one key
\* and lie less than one minute apart, exactly the first max_requests of
\* them are admitted and every later one is rejected, in both limiters.
OneKeyOneWindow ==
    /\ calls # << >>
    /\ \A i \in Idx : calls[i].ip = calls[1].ip
    /\ calls[Len(calls)].now - calls[1].now < WindowDuration

C2_SequentialExhaustion ==
    OneKeyOneWindow =>
        \A i \in Idx : /\ calls[i].allowed = (i <= max_requests)
                       /\ calls[i].main_allowed = (i <= max_requests)

\* ----------------------------------------------------------------- C4
\* C4 (independence across keys): every check of the observed key gets the
\* same result from the limiter that also serves the other key as from the
\* limiter that receives the observed key's checks alone.
C4_Independence ==
    \A i \in Idx : calls[i].ip = Observed => calls[i].allowed = calls[i].solo_allowed

\* ----------------------------------------------------------------- C5
\* C5 (rejected calls do not count): a rejected check leaves the key's log
\* without any new timestamp (the log after it is a suffix of the log before
\* it), and a check made at least one minute after the key's latest admitted
\* request is admitted, however many rejected checks came in between.
C5_RejectedDoNotCount ==
    \A i \in Idx :
        LET c == calls[i] IN
        /\ ~c.allowed =>
              /\ c.ip \in DOMAIN c.after
              /\ IsSuffix(c.after[c.ip], Get(c.before, c.ip))
        /\ ~c.main_allowed =>
              /\ c.ip \in DOMAIN c.main_after
              /\ IsSuffix(c.main_after[c.ip], Get(c.main_before, c.ip))
        /\ (/\ EarlierAdmits(i) # {}
            /\ \A j \in EarlierAdmits(i) : c.now >= calls[j].now + WindowDuration)
              => c.allowed
        /\ (/\ MainEarlierAdmits(i) # {}
            /\ \A j \in MainEarlierAdmits(i) : c.now >= calls[j].now + WindowDuration)
              => c.main_allowed

\* max_requests admits, then a reject, then an admit one minute after the
\* last admit: the case C5 is about
C5_Witness ==
    \E i \in Idx : \E r \in 1..(i - 1) :
        /\ calls[r].ip = calls[i].ip
        /\ ~calls[r].allowed
        /\ Len(Get(calls[r].before, calls[r].ip)) = max_requests
        /\ calls[i].allowed
        /\ Cardinality(EarlierAdmits(i)) = max_requests
        /\ \A j \in EarlierAdmits(i) :
              j < r /\ calls[i].now = calls[j].now + WindowDuration

\* ----------------------------------------------------------------- C6
\* C6 (window slide): when the log of key K holds exactly max_requests
\* timestamps, all of them T (max_requests requests admitted at time T), a
\* check for K at any time strictly later than T + 1 minute is admitted.
FullAt(log, T) == Len(log) = max_requests /\ \A n \in 1..Len(log) : log[n] = T

C6_WindowSlide ==
    \A i \in Idx :
        LET c == calls[i] IN
        /\ \A T \in Range(Get(c.before, c.ip)) :
              (FullAt(c.before[c.ip], T) /\ c.now > T + WindowDuration) => c.allowed
        /\ \A T \in Range(Get(c.main_before, c.ip)) :
              (FullAt(c.main_before[c.ip], T) /\ c.now > T + WindowDuration)
                  => c.main_allowed

C6_Witness ==
    \E i \in Idx :
        LET c == calls[i] IN
        /\ c.ip \in DOMAIN c.before
        /\ c.before[c.ip] # << >>
        /\ FullAt(c.before[c.ip], c.before[c.ip][1])
        /\ c.now > c.before[c.ip][1] + WindowDuration
        /\ c.allowed
        /\ c.after[c.ip] = << c.now >>

\* ----------------------------------------------------------------- C7
\* C7 (result guarantee): a check is admitted exactly when fewer than
\* max_requests earlier admitted requests of its key have a timestamp in the
\* minute that ends at the check's time, whether or not a sweep runs.
C7_ResultGuarantee ==
    \A i \in Idx :
        calls[i].allowed =
            (Cardinality({j \in EarlierAdmits(i) :
                            calls[j].now > calls[i].now - WindowDuration})
                < max_requests)

\* ----------------------------------------------------------------- C3
\* C3 (concurrent quota bound): with checks of several threads interleaved,
\* the checks of one key admitted within any one minute (t - 60 s, t] are at
\* most max_requests, and every admitted timestamp younger than one minute
\* is still in the key's log, once for every check admitted with it.
Count(log, ts) == Cardinality({n \in 1..Len(log) : log[n] = ts})

C3_NoOverAdmission ==
    \A a \in c_admits :
        Cardinality({b \in c_admits : /\ b.ip = a.ip
                                      /\ b.ts > a.ts - WindowDuration
                                      /\ b.ts <= a.ts}) <= max_requests

C3_NoLostTimestamp ==
    \A a \in c_admits :
        a.ts > c_clock - WindowDuration =>
            Count(CLog(a.ip), a.ts)
                >= Cardinality({b \in c_admits : b.ip = a.ip /\ b.ts = a.ts})

C3_ConcurrentQuotaBound == C3_NoOverAdmission /\ C3_NoLostTimestamp

\* ----------------------------------------------------------------- C8
\* C8 (sweep does not disturb an in-flight check): no step of a sweep
\* (replacing a key's list by its pruned copy, deleting a key) removes from
\* the log of a key that another thread is checking, or has checked since
\* the sweep began, a timestamp younger than one minute.
C8_SweepKeepsInFlight ==
    [][ \A t \in Threads : Sweeping(t) =>
            \A k \in Keys : \A a \in c_admits :
                (a.ip = k /\ a.ts > c_clock - WindowDuration) =>
                    Count(CLog(k)', a.ts) >= Count(CLog(k), a.ts) ]_vars

\* ----------------------------------------------------------------- C9
\* C9 (sweep is not load-bearing): the limiter that sweeps inside is_allowed
\* and the limiter that never sweeps give every check the same result.
C9_SameResults ==
    \A i \in Idx : calls[i].allowed = calls[i].main_allowed

\* ----------------------------------------------------------------- C10
\* C10 as stated (check(K) changes K's entry only): every other key is
\* present after the check exactly if it was before, with the same log.
C10_OtherKeysUntouched ==
    \A i \in Idx : \A k \in Keys \ {calls[i].ip} :
        /\ (k \in DOMAIN calls[i].before) = (k \in DOMAIN calls[i].after)
        /\ Get(calls[i].before, k) = Get(calls[i].after, k)

\* C10 as amended: a check that runs no sweep leaves every other key's
\* presence and log as they were; a check that runs the sweep never adds a
\* key or a timestamp to another key, removes from another key's log only
\* timestamps not later than (the sweep's clock - 1 minute), keeps the rest
\* in order, and removes exactly the other keys whose log is left empty.
C10_OtherKeysOnlySwept ==
    \A i \in Idx : \A k \in Keys \ {calls[i].ip} :
        LET c == calls[i]
            old == Get(c.before, k)
            new == Get(c.after, k)
        IN  /\ ~c.swept =>
                  /\ (k \in DOMAIN c.before) = (k \in DOMAIN c.after)
                  /\ old = new
            /\ c.swept =>
                  /\ k \in DOMAIN c.after => k \in DOMAIN c.before
                  /\ new = SelectSeq(old, LAMBDA ts : ts > c.now2 - WindowDuration)
                  /\ (k \in DOMAIN c.after) = (new # << >>)
            /\ (k \in DOMAIN c.main_before) = (k \in DOMAIN c.main_after)
            /\ Get(c.main_before, k) = Get(c.main_after, k)

\* a sweeping check that prunes another key's log: one key removed, or one
\* log shortened while the key stays
C10_Witness ==
    \E i \in Idx : \E k \in Keys \ {calls[i].ip} :
        /\ calls[i].swept
        /\ k \in DOMAIN calls[i].before
        /\ k \notin DOMAIN calls[i].after

\* ----------------------------------------------------------------- C11
\* every timestamp of the log left the window more than SweepInterval
\* seconds before time t
StaleAt(log, t) ==
    \A n \in 1..Len(log) : log[n] + WindowDuration + SweepInterval < t

\* C11 (sweep safety): when a check returns, no key whose log has held no
\* in-window timestamp for more than 5 minutes is still in the mapping of
\* either limiter; and a check of a key whose admitted requests all left the
\* window more than 5 minutes ago is admitted and leaves the key with a log
\* holding exactly the time of that check.
C11_SweepSafety ==
    /\ \A k \in DOMAIN requests : ~StaleAt(requests[k], clock)
    /\ \A k \in DOMAIN main_requests : ~StaleAt(main_requests[k], clock)
    /\ \A i \in Idx :
          LET c == calls[i] IN
          /\ (/\ EarlierAdmits(i) # {}
              /\ \A j \in EarlierAdmits(i) :
                    calls[j].now + WindowDuration + SweepInterval < c.now)
                => c.allowed /\ c.after[c.ip] = << c.now >>
          /\ (/\ MainEarlierAdmits(i) # {}
              /\ \A j \in MainEarlierAdmits(i) :
                    calls[j].now + WindowDuration + SweepInterval < c.now)
                => c.main_allowed /\ c.main_after[c.ip] = << c.now >>

\* the part of C11 that the sweeping limiter of rate_limit.py satisfies
C11_SweepingLimiterPart ==
    \A k \in DOMAIN requests : ~StaleAt(requests[k], clock)

\* ----------------------------------------------------------------- C12
\* C12 (check never fails): no check made so far raised, each returned True
\* or False, and check_rate_limit answered 429 exactly for the checks that
\* returned False and passed the others; and in the state reached, is_allowed
\* raises for no key, no call time and no second clock read.
C12_CheckNeverFails ==
    /\ \A i \in Idx :
          LET c == calls[i] IN
          /\ ~c.raised
          /\ c.allowed \in BOOLEAN
          /\ c.response.outcome \in {"pass", "HTTPException"}
          /\ (c.response.outcome = "HTTPException") = ~c.allowed
          /\ c.response.outcome = "HTTPException" =>
                c.response.status_code = StatusTooManyRequests
    /\ \A ip \in Keys : \A step \in ClockSteps : \A delay \in SweepDelays :
          ~is_allowed(requests, last_cleanup, ip,
                      clock + step, clock + step + delay).raised

\* a sweep that executed del self.requests[ip] for some key, and a check
\* answered with 429
C12_Witness ==
    /\ \E i \in Idx :
          /\ calls[i].swept
          /\ \E k \in DOMAIN calls[i].before :
                k # calls[i].ip /\ k \notin DOMAIN calls[i].after
    /\ \E j \in Idx : calls[j].response.outcome = "HTTPException"

\* ----------------------------------------------------------------- C15
\* the log holds max_requests timestamps at strictly increasing times
FullDistinct(log) ==
    /\ Len(log) = max_requests
    /\ \A n \in 1..(Len(log) - 1) : log[n] < log[n + 1]

\* C15 (sliding window): a check of a key whose log holds max_requests
\* timestamps t1 < ... < tmax, made later than t1 + 1 minute, is admitted by
\* both limiters, and the app/main.py limiter keeps the timestamps of the
\* burst that are still younger than one minute in front of the new one.
C15_SlidingWindow ==
    \A i \in Idx :
        LET c    == calls[i]
            log  == Get(c.before, c.ip)
            mlog == Get(c.main_before, c.ip)
        IN  /\ (FullDistinct(log) /\ c.now > log[1] + WindowDuration) => c.allowed
            /\ (FullDistinct(mlog) /\ c.now > mlog[1] + WindowDuration) =>
                  /\ c.main_allowed
                  /\ c.main_after[c.ip] =
                        Append(SelectSeq(mlog, LAMBDA ts : ts > c.now - WindowDuration),
                               c.now)

\* quota exhausted at distinct times, a rejected check, then a check later
\* than t1 + 1 minute that is admitted while the last timestamp of the burst
\* is still in the window
C15_Witness ==
    \E i \in Idx : \E j \in 1..(i - 1) :
        LET c   == calls[i]
            log == Get(c.before, c.ip)
        IN  /\ FullDistinct(log)
            /\ calls[j].ip = c.ip /\ ~calls[j].allowed /\ ~calls[j].main_allowed
            /\ calls[j].before[c.ip] = log
            /\ c.now > log[1] + WindowDuration
            /\ log[Len(log)] > c.now - WindowDuration
            /\ c.allowed /\ c.main_allowed
            /\ c.main_before[c.ip] = log
            /\ Len(c.main_after[c.ip]) = max_requests

\* ----------------------------------------------------------------- C16
\* C16 (determinism): in every reachable state of the rate_limit.py limiter,
\* for every key and every call time, the result of is_allowed and the
\* mapping it leaves are the same whatever the clock returns to the sweep.
C16_SameOutcome ==
    \A ip \in Keys : \A step \in ClockSteps : \A d1, d2 \in SweepDelays :
        is_allowed(requests, last_cleanup, ip, clock + step, clock + step + d1).allowed
          = is_allowed(requests, last_cleanup, ip, clock + step, clock + step + d2).allowed

C16_Determinism ==
    /\ C16_SameOutcome
    /\ \A ip \in Keys : \A step \in ClockSteps : \A d1, d2 \in SweepDelays :
        is_allowed(requests, last_cleanup, ip, clock + step, clock + step + d1).requests
          = is_allowed(requests, last_cleanup, ip, clock + step, clock + step + d2).requests

\* ------------------------------------------------ history of SpecHttp
\* the requests made since rate_limiter.requests was last cleared
HIdx == (h_reset_at + 1)..Len(h_calls)

\* the earlier admitted requests of the client of request i whose time is
\* younger than one minute at request i, whatever route they went to
ClientAdmitsInWindow(i) ==
    {j \in HIdx : /\ j < i
                  /\ h_calls[j].client = h_calls[i].client
                  /\ h_calls[j].allowed
                  /\ h_calls[j].now > h_calls[i].now - WindowDuration}

\* the same, counting only the requests to the route of request i
RouteAdmitsInWindow(i) ==
    {j \in ClientAdmitsInWindow(i) : h_calls[j].endpoint = h_calls[i].endpoint}

C14_IndependentEndpointLimits ==
    \A i \in HIdx :
        ~h_calls[i].allowed =>
            Cardinality(RouteAdmitsInWindow(i)) >= h_calls[i].limit

\* ----------------------------------------------------------------- C17
\* C17 (429 states the configured limit): a rejected request is answered
\* with status 429 and a message whose number is rate_limiter.max_requests
\* at that time; an admitted request gets no 429.
C17_MessageStatesLimit ==
    \A i \in 1..Len(h_calls) :
        /\ ~h_calls[i].allowed =>
              /\ h_calls[i].response.outcome = "HTTPException"
              /\ h_calls[i].response.status_code = StatusTooManyRequests
              /\ h_calls[i].response.limit = h_calls[i].limit
        /\ h_calls[i].allowed => h_calls[i].response.outcome = "pass"

\* ----------------------------------------------------------------- C18
\* C18 (sentinel key): a request without a client, or with a client whose
\* host is the empty string, is checked under the key "unknown", and is
\* either passed or answered 429, so all such requests share one log.
C18_SentinelKey ==
    \A i \in 1..Len(h_calls) :
        (~h_calls[i].client.present \/ h_calls[i].client.host = "") =>
            /\ h_calls[i].key = "unknown"
            /\ h_calls[i].response.outcome \in {"pass", "HTTPException"}

\* the part of C18 that holds: a request without a client is checked under
\* "unknown" and never refused as invalid
C18_MissingClientPart ==
    \A i \in 1..Len(h_calls) :
        ~h_calls[i].client.present =>
            /\ h_calls[i].key = "unknown"
            /\ h_calls[i].response.outcome \in {"pass", "HTTPException"}

\* ----------------------------------------------------------------- C19
\* name occurs in str as a run of characters, without regard to case
Contains(name, str) ==
    \E i \in 1..(Len(str) - Len(name) + 1) :
        LowerStr(SubSeq(str, i, i + Len(name) - 1)) = LowerStr(name)

\* the row satisfies every filter the request supplies (a parameter that is
\* absent or empty supplies none)
Satisfies(e, q) ==
    LET st == StatusFilter(StatusOf(q))
    IN  /\ st.all \/ e.status \in st.values
        /\ (q.name.given /\ q.name.value # << >>) =>
              Contains(q.name.value, e.first_name) \/ Contains(q.name.value, e.last_name)
        /\ (q.department.given /\ q.department.value # "") =>
              e.department = q.department.value
        /\ (q.position.given /\ q.position.value # "") =>
              e.position = q.position.value
        /\ (q.location.given /\ q.location.value # "") =>
              e.location = q.location.value

\* an admitted search with a well-formed status and no limit or offset
PlainSearch ==
    /\ d_resp.op = "search"
    /\ d_resp.admitted
    /\ StatusFilter(StatusOf(d_resp.q)).ok
    /\ ~d_resp.q.limit.given /\ ~d_resp.q.offset.given

\* C19 (search result): an admitted search with a well-formed status and no
\* limit or offset is answered 200 with exactly the stored rows that satisfy
\* every supplied filter (all rows when none is supplied or status is "all"),
\* by search_employees of app/main.py and by that of endpoint.py.
C19_SearchReturnsMatching ==
    PlainSearch =>
        LET want == SelectSeq(d_resp.rows, LAMBDA e : Satisfies(e, d_resp.q))
        IN  /\ d_resp.main.status_code = 200 /\ d_resp.main.body = want
            /\ d_resp.v1.status_code = 200 /\ d_resp.v1.body = want

\* the part of C19 that holds: app/main.py, for a name without the LIKE
\* wildcards % and _
C19_MainWithoutWildcards ==
    (PlainSearch /\ \A n \in 1..Len(d_resp.q.name.value) :
                        d_resp.q.name.value[n] \notin { "%", "_" }) =>
        /\ d_resp.main.status_code = 200
        /\ d_resp.main.body = SelectSeq(d_resp.rows, LAMBDA e : Satisfies(e, d_resp.q))

\* ----------------------------------------------------------------- C20
\* C20 (pagination): an admitted search with a limit above 1000 is answered
\* 422 without running the query; one with a well-formed status, limit L in
\* 1..1000 (100 when absent) and offset O >= 0 (0 when absent) is answered
\* 200 with the matching rows after the first O, at most L of them; by
\* search_employees of app/main.py and by that of endpoint.py.
C20_Pagination ==
    (d_resp.op = "search" /\ d_resp.admitted) =>
        LET q == d_resp.q
            L == IF q.limit.given THEN q.limit.value ELSE LimitDefault
            O == IF q.offset.given THEN q.offset.value ELSE 0
        IN  /\ L > LimitMax =>
                  /\ d_resp.main.status_code = 422 /\ d_resp.main.employees = << >>
                  /\ d_resp.v1.status_code = 422 /\ d_resp.v1.employees = << >>
            /\ (L >= 1 /\ L <= LimitMax /\ O >= 0 /\ StatusFilter(StatusOf(q)).ok) =>
                  /\ d_resp.main.status_code = 200
                  /\ d_resp.main.body = Page(Filtered(d_resp.rows, q), O, L)
                  /\ d_resp.v1.status_code = 200
                  /\ d_resp.v1.body = Page(Filtered(d_resp.rows, q), O, L)

\* the part of C20 that holds: endpoint.py refuses a limit above 1000 before
\* the query runs
C20_EndpointRefusesLargeLimit ==
    (d_resp.op = "search" /\ d_resp.admitted
        /\ d_resp.q.limit.given /\ d_resp.q.limit.value > LimitMax) =>
            d_resp.v1.status_code = 422 /\ d_resp.v1.employees = << >>

\* ----------------------------------------------------------------- C21
\* a part of the status parameter that is no integer, or an integer other
\* than 0, 1, 2
InvalidPart(x) == ~IsInt(x) \/ IntValue(x) \notin { 0, 1, 2 }

\* C21 (invalid status): an admitted search of app/main.py whose status is
\* not "all" in any case and has a comma-separated part that is not an
\* integer in {0, 1, 2} is answered 400 without employees; one whose parts
\* are all integers in {0, 1, 2} is answered 200 with rows of those statuses.
C21_InvalidStatusIs400 ==
    (d_resp.op = "search" /\ d_resp.admitted
        /\ LowerStr(StatusOf(d_resp.q)) # << "a", "l", "l" >>) =>
        LET parts == StatusParts(StatusOf(d_resp.q))
        IN  /\ (\E x \in parts : InvalidPart(x)) =>
                  d_resp.main.status_code = 400 /\ d_resp.main.body = << >>
            /\ (\A x \in parts : ~InvalidPart(x)) =>
                  /\ d_resp.main.status_code = 200
                  /\ \A n \in 1..Len(d_resp.main.body) :
                        d_resp.main.body[n].status \in { IntValue(x) : x \in parts }

\* a stored employee has status 1, and a search with status "1,x", whose
\* first part alone would match it, is answered 400
C21_Witness ==
    /\ d_resp.op = "search" /\ d_resp.admitted
    /\ d_resp.q.status = Given(<< "1", ",", "x" >>)
    /\ \E n \in 1..Len(d_resp.rows) : d_resp.rows[n].status = 1
    /\ d_resp.main.status_code = 400

\* ----------------------------------------------------------------- C22
\* C22 as stated (deleted stays gone): an admitted GET of an id that a
\* DELETE answered 204 for is answered 404, however much later; an admitted
\* GET, PUT or DELETE of an id that is not stored is answered 404 and leaves
\* the table as it was.
C22_DeletedStaysGone ==
    /\ (d_resp.op = "get" /\ d_resp.admitted /\ d_resp.id \in d_deleted) =>
          d_resp.status_code = 404
    /\ (d_resp.op \in { "get", "put", "delete" } /\ d_resp.admitted
            /\ d_resp.id \notin StoredIds(d_resp.before)) =>
          d_resp.status_code = 404 /\ d_table = d_resp.before

\* C22 as amended: the GET of a deleted id is answered 404 as long as no
\* later POST has stored a new row under that id, which PostgreSQL never
\* does; the requests for an id that is not stored are answered 404 and
\* leave the table as it was.
C22_DeletedGoneUntilReused ==
    /\ (d_resp.op = "get" /\ d_resp.admitted /\ d_resp.id \in d_deleted \ d_reused) =>
          d_resp.status_code = 404
    /\ d_engine = "postgresql" => d_reused = {}
    /\ \A id \in d_deleted \ d_reused : id \notin StoredIds(d_table)
    /\ (d_resp.op \in { "get", "put", "delete" } /\ d_resp.admitted
            /\ d_resp.id \notin StoredIds(d_resp.before)) =>
          d_resp.status_code = 404 /\ d_table = d_resp.before

\* a row was deleted while another stays stored, and the GET of the deleted
\* id is answered 404
C22_Witness ==
    /\ d_resp.op = "get" /\ d_resp.admitted
    /\ d_resp.id \in d_deleted \ d_reused
    /\ d_table # << >>
    /\ d_resp.status_code = 404

\* ---------------------------------------------------------------- C23
\* the part of a log that is not strictly older than now - 1 minute
FromWindowStart(log, now) ==
    SelectSeq(log, LAMBDA timestamp : timestamp >= now - WindowDuration)

\* C23 (prune boundary): the pruning of a check at time now removes exactly
\* the timestamps strictly older than now - 1 minute: the key's log after the
\* check is the part of the old log from now - 1 minute on (followed by now
\* when the check is admitted), and the check is admitted exactly when that
\* part holds fewer than max_requests timestamps. Stated for the app/main.py
\* limiter, and for the rate_limit.py limiter in the checks that do not sweep.
C23_PruneBoundary ==
    \A i \in Idx :
        LET c     == calls[i]
            mkept == FromWindowStart(Get(c.main_before, c.ip), c.now)
            kept  == FromWindowStart(Get(c.before, c.ip), c.now)
        IN  /\ c.main_allowed = (Len(mkept) < max_requests)
            /\ Get(c.main_after, c.ip) =
                  IF c.main_allowed THEN Append(mkept, c.now) ELSE mkept
            /\ ~c.swept =>
                  /\ c.allowed = (Len(kept) < max_requests)
                  /\ Get(c.after, c.ip) =
                        IF c.allowed THEN Append(kept, c.now) ELSE kept

\* ---------------------------------------------------------------- C28
\* C28 (sweep spares the check's window): a check at time now that sweeps
\* removes from no key's log a timestamp later than now - 1 minute, and so
\* removes no key that holds such a timestamp.
C28_SweepSparesWindow ==
    \A i \in Idx :
        LET c == calls[i] IN
        c.swept =>
            \A k \in DOMAIN c.before :
                LET live == Prune(c.before[k], c.now) IN
                live # << >> =>
                    /\ k \in DOMAIN c.after
                    /\ \E n \in 0..1 : SubSeq(c.after[k], 1, Len(c.after[k]) - n) = live

\* ---------------------------------------------------------------- C24
\* the time of the latest sweeping check before calls[i], or the time of
\* construction when there is none: the value of last_cleanup at calls[i]
LastSweepBefore(i) ==
    LET S == {j \in 1..(i - 1) : calls[j].swept} IN
    IF S = {} THEN 0 ELSE calls[CHOOSE j \in S : \A k \in S : k <= j].now

\* C24 (sweep trigger): a check sweeps only when more than 300 s have passed
\* since last_cleanup, which is then set to the time of that check; two
\* successive sweeping checks are more than 300 s apart and no check in the
\* first 300 s after construction sweeps.
C24_SweepTrigger ==
    /\ last_cleanup = LastSweepBefore(Len(calls) + 1)
    /\ \A i \in Idx :
          calls[i].swept =>
              /\ calls[i].now - LastSweepBefore(i) > SweepInterval
              /\ calls[i].now > SweepInterval
              /\ \A j \in 1..(i - 1) :
                    calls[j].swept => calls[i].now - calls[j].now > SweepInterval

\* two checks swept, and a check made exactly 300 s after last_cleanup did not
C24_Witness ==
    /\ \E i, j \in Idx : i < j /\ calls[i].swept /\ calls[j].swept
    /\ \E k \in Idx : /\ calls[k].now - LastSweepBefore(k) = SweepInterval
                       /\ ~calls[k].swept

\* ---------------------------------------------------------------- C25
\* the postcondition of a sweep that read the clock at now2 and turned the
\* mapping before into the mapping after
SweepPost(before, after, now2) ==
    /\ \A k \in DOMAIN after :
          /\ after[k] # << >>
          /\ \A ts \in Range(after[k]) :
                ts > now2 - WindowDuration /\ ts <= now2
    /\ \A k \in DOMAIN before :
          LET inWindow == SelectSeq(before[k],
                            LAMBDA ts : ts > now2 - WindowDuration)
          IN  /\ inWindow = << >> => k \notin DOMAIN after
              /\ inWindow # << >> => k \in DOMAIN after /\ after[k] = inWindow
    /\ DOMAIN after \subseteq DOMAIN before

\* C25 (sweep postcondition): right after the sweep of a check, before the
\* check goes on to its limit test, every key in the mapping has a non-empty
\* log whose timestamps all lie in the sweep's window (now2 - 1 minute, now2],
\* now2 being the sweep's own clock read; a key is in the mapping exactly when
\* its log held a timestamp of that window before the sweep, and the log it
\* keeps is the in-window part of its old log. The same holds of
\* cleanup_old_entries of app/main.py, were it called now or later.
C25_SweepPostcondition ==
    /\ \A i \in Idx :
          calls[i].swept =>
              SweepPost(calls[i].sweep_in, calls[i].sweep_out, calls[i].now2)
    /\ \A step \in ClockSteps :
          SweepPost(main_requests,
                    main_cleanup_old_entries(main_requests, clock + step),
                    clock + step)

\* a sweep that removed a key whose log was not empty and kept another key
C25_Witness ==
    \E i \in Idx :
        /\ calls[i].swept
        /\ \E k \in DOMAIN calls[i].sweep_in :
              calls[i].sweep_in[k] # << >> /\ k \notin DOMAIN calls[i].sweep_out
        /\ DOMAIN calls[i].sweep_out # {}

\* ---------------------------------------------------------------- C26
\* C26 (log length cap): with max_requests fixed and the checks made one
\* after the other, no key's log ever holds more than max_requests
\* timestamps, in the rate_limit.py limiter and in the app/main.py one.
C26_LogLengthCap ==
    /\ \A k \in DOMAIN requests : Len(requests[k]) <= max_requests
    /\ \A k \in DOMAIN main_requests : Len(main_requests[k]) <= max_requests
    /\ \A k \in DOMAIN solo_requests : Len(solo_requests[k]) <= max_requests

\* a check found its key's log full, was rejected, and left it full
C26_Witness ==
    /\ calls # << >>
    /\ LET c == calls[Len(calls)] IN
        /\ ~c.allowed /\ ~c.main_allowed
        /\ Len(Get(requests, c.ip)) = max_requests
        /\ Len(Get(main_requests, c.ip)) = max_requests

\* ---------------------------------------------------------------- C27
Sorted(log) == \A m, n \in 1..Len(log) : m <= n => log[m] <= log[n]

\* C27 (chronological order): every key's log is in non-decreasing timestamp
\* order in every state, also when the checks run concurrently and read the
\* clock before they append.
C27_ChronologicalOrder ==
    /\ \A ip \in Keys : Sorted(CLog(ip))
    /\ \A ip \in DOMAIN requests : Sorted(requests[ip])
    /\ \A ip \in DOMAIN main_requests : Sorted(main_requests[ip])

\* ---------------------------------------------------------------- C29
\* the threads that passed the sweep gate and have not yet returned from
\* _cleanup_old_entries
InSweep == {t \in Threads : th[t].pc \in { "sweep_snap", "sweep_item" }}

\* C29 (one sweep per interval): of the checks that run concurrently once
\* more than 300 s have passed without a sweep, at most one is ever inside
\* _cleanup_old_entries, and no check fails on the del of a key that another
\* sweep already deleted.
C29_OneSweepPerInterval ==
    /\ Cardinality(InSweep) <= 1
    /\ \A t \in Threads : th[t].pc # "KeyError"

\* the two failures apart: two checks sweep at once
C29_TwoSweeps == Cardinality(InSweep) > 1
\* and a check ends in KeyError
C29_KeyError == \E t \in Threads : th[t].pc = "KeyError"

\* ---------------------------------------------------------------- C30
\* C30 (no empty entries at rest): with max_requests >= 1, after every check
\* that has returned, admitted or rejected, sweeping or not, each key in the
\* mapping has a log of at least one timestamp.
C30_NoEmptyEntries ==
    max_requests >= 1 =>
        /\ \A k \in DOMAIN requests : requests[k] # << >>
        /\ \A k \in DOMAIN solo_requests : solo_requests[k] # << >>
        /\ \A i \in Idx : \A k \in DOMAIN calls[i].after : calls[i].after[k] # << >>

\* the history holds a rejected check and a sweeping check whose own key
\* held only expired timestamps: the sweep deleted the key and the check
\* put it back with the one timestamp it appended
C30_Witness ==
    /\ \E j \in Idx : ~calls[j].allowed
    /\ \E i \in Idx :
          LET c == calls[i] IN
          /\ c.swept /\ c.allowed
          /\ Get(c.before, c.ip) # << >>
          /\ c.ip \in DOMAIN c.sweep_in /\ c.sweep_in[c.ip] = << >>
          /\ c.ip \notin DOMAIN c.sweep_out
          /\ c.after[c.ip] = << c.now >>

====
